---- MODULE Spec2Model ----
(***************************************************************************)
(* Model of SpikingFlow.simulating.Simulator: a chain of modules and the   *)
(* single pipeline list that holds every module's output of the current    *)
(* time step.  Source indices are 0-based (pipeline[0..n], module_list     *)
(* [0..n-1]); the sequences below are 1-based, so slot i of the source is  *)
(* element i + 1 here.  Get/Put hide the shift and the loop operators keep *)
(* the source's indices.                                                   *)
(***************************************************************************)
EXTENDS Integers, Sequences, FiniteSets, TLC

\* ---------------------------------------------------------------- bounds
MaxStages == 3
MaxCalls == 3

\* ---------------------------------------------------------------- signals
\* Python's None is the empty tuple, a signal v is the 1-tuple <<v>>.
None == <<>>
Some(v) == <<v>>

Inputs == {Some(10), Some(20)}

\* ---------------------------------------------------------------- stages
\* The modules a caller may append.  Identity and AddOne are stateless and
\* never raise; Integrator keeps a running sum, and its forward() may raise.
Kinds == {"Identity", "AddOne", "Integrator"}

InitialState(kind) == 0

\* module(x): the output, the module's next internal state and whether the
\* call raised.  `boom` says that this invocation of an Integrator raises.
\* Arithmetic on None raises (TypeError); a call that raises writes no state.
Transform(kind, st, x, boom) ==
    CASE kind = "Identity" -> [out |-> x, st |-> st, raised |-> FALSE]
      [] kind = "AddOne" ->
            IF x = None THEN [out |-> None, st |-> st, raised |-> TRUE]
            ELSE [out |-> Some(x[1] + 1), st |-> st, raised |-> FALSE]
      [] kind = "Integrator" ->
            IF boom \/ x = None THEN [out |-> None, st |-> st, raised |-> TRUE]
            ELSE [out |-> Some(st + x[1]), st |-> st + x[1], raised |-> FALSE]

\* module.reset()
StageReset(kind, st) == InitialState(kind)

\* ---------------------------------------------------------------- state
VARIABLES
    module_list,      \* self.module_list: the kinds of the appended modules
    mstate,           \* the internal state of each appended module
    pipeline,         \* self.pipeline
    simulated_steps,  \* self.simulated_steps
    fast,             \* self.fast
    lastOp,           \* the method that ran last
    result,           \* what the last step() returned or raised
    invoked,          \* modules whose forward() the last call ran, in order
    noneSeen,         \* modules the last call invoked on None
    resets,           \* modules whose reset() the last call ran, in order
    cleared,          \* what the last reset() found: the steps run, a raise, a late append
    passKind,         \* the loop the last step() ran
    ins,              \* inputs of the step() calls since the pipeline was last cleared
    outs,             \* their outcomes
    lateAppend,       \* a module was appended after one of those calls
    appendBurst,      \* two modules were appended after one of those calls with no call between
    warmedUp          \* one of those calls ran the warm-up loop

vars == <<module_list, mstate, pipeline, simulated_steps, fast, lastOp, result,
          invoked, noneSeen, resets, cleared, passKind, ins, outs, lateAppend,
          appendBurst, warmedUp>>

Get(p, i) == p[i + 1]
Put(p, i, v) == [p EXCEPT ![i + 1] = v]

Returned(v) == [status |-> "ok", value |-> v, at |-> -1]
Raised(i) == [status |-> "StageInvocationFailure", value |-> None, at |-> i]
NoResult == [status |-> "none", value |-> None, at |-> -1]
NotCleared == [steps |-> -1, raised |-> FALSE, late |-> FALSE]

\* ---------------------------------------------------------------- __init__
Init ==
    /\ module_list = <<>>
    /\ mstate = <<>>
    /\ pipeline = <<None>>
    /\ simulated_steps = 0
    /\ fast \in BOOLEAN
    /\ lastOp = "init"
    /\ result = NoResult
    /\ invoked = <<>>
    /\ noneSeen = {}
    /\ resets = <<>>
    /\ cleared = NotCleared
    /\ passKind = "none"
    /\ ins = <<>>
    /\ outs = <<>>
    /\ lateAppend = FALSE
    /\ appendBurst = FALSE
    /\ warmedUp = FALSE

\* ---------------------------------------------------------------- append
\* Variant of append() that puts the new slot at the head.
AppendFront(p) == <<None>> \o p

\* Variant of append() that leaves the pipeline as it is.
AppendNothing(p) == p

\* self.pipeline.append(None)
AppendNone(p) == Append(p, None)

append(new_module) ==
    /\ Len(module_list) < MaxStages
    /\ module_list' = Append(module_list, new_module)
    /\ mstate' = Append(mstate, InitialState(new_module))
    /\ pipeline' = AppendNone(pipeline)
    /\ lastOp' = "append"
    /\ result' = NoResult
    /\ invoked' = <<>>
    /\ noneSeen' = {}
    /\ resets' = <<>>
    /\ cleared' = NotCleared
    /\ passKind' = "none"
    /\ lateAppend' = (lateAppend \/ ins # <<>>)
    /\ appendBurst' = (appendBurst \/ (lastOp = "append" /\ ins # <<>>))
    /\ UNCHANGED <<simulated_steps, fast, ins, outs, warmedUp>>

\* ---------------------------------------------------------------- step
\* The running state of one step() call: the lists it writes, the trace of
\* the forward() calls it made, and the module that raised (-1: none).
Frame(ml, ms, p) ==
    [ml |-> ml, ms |-> ms, p |-> p, invoked |-> <<>>, noneSeen |-> {}, raisedAt |-> -1]

\* Variant of the call that stores None in the output slot when forward() raises.
CallClearsOnRaise(s, i, boom) ==
    LET x == Get(s.p, i)
        r == Transform(s.ml[i + 1], s.ms[i + 1], x, boom = i)
        t == [s EXCEPT !.invoked = Append(@, i),
                       !.noneSeen = IF x = None THEN @ \cup {i} ELSE @]
    IN  IF r.raised
        THEN [t EXCEPT !.raisedAt = i, !.p = Put(@, i + 1, None)]
        ELSE [t EXCEPT !.p = Put(@, i + 1, r.out), !.ms = [@ EXCEPT ![i + 1] = r.st]]

\* self.pipeline[i + 1] = self.module_list[i](self.pipeline[i])
Call(s, i, boom) ==
    LET x == Get(s.p, i)
        r == Transform(s.ml[i + 1], s.ms[i + 1], x, boom = i)
        t == [s EXCEPT !.invoked = Append(@, i),
                       !.noneSeen = IF x = None THEN @ \cup {i} ELSE @]
    IN  IF r.raised
        THEN [t EXCEPT !.raisedAt = i]
        ELSE [t EXCEPT !.p = Put(@, i + 1, r.out), !.ms = [@ EXCEPT ![i + 1] = r.st]]

\* Variants of the warm-up loop: range(len(module_list) - 1), which leaves out
\* the last module, and range(1, len(module_list)), which leaves out the first.
RECURSIVE UpTo(_, _, _, _)
UpTo(s, i, last, boom) ==
    IF i > last \/ s.raisedAt # -1 THEN s
    ELSE UpTo(Call(s, i, boom), i + 1, last, boom)
ForwardPassShort(s, i, boom) == UpTo(s, 0, Len(s.ml) - 2, boom)
ForwardPassFromOne(s, i, boom) == UpTo(s, 1, Len(s.ml) - 1, boom)

\* for i in range(len(module_list)): pipeline[i + 1] = module_list[i](pipeline[i])
RECURSIVE ForwardPass(_, _, _)
ForwardPass(s, i, boom) ==
    IF i >= Len(s.ml) \/ s.raisedAt # -1 THEN s
    ELSE ForwardPass(Call(s, i, boom), i + 1, boom)

\* Variants of the None test: the slot being written instead of the slot
\* being read, and no test at all.
FeedsOwnSlot(p, i) == Get(p, i) # None
FeedsAlways(p, i) == TRUE

\* if self.pipeline[i - 1] is not None
Feeds(p, i) == Get(p, i - 1) # None

\* Variant of the second loop that walks the slots upwards, i = 1, ..., n.
RECURSIVE Ascending(_, _, _)
Ascending(s, i, boom) ==
    IF i > Len(s.ml) \/ s.raisedAt # -1 THEN s
    ELSE IF Get(s.p, i - 1) # None
         THEN Ascending(Call(s, i - 1, boom), i + 1, boom)
         ELSE Ascending([s EXCEPT !.p = Put(@, i, None)], i + 1, boom)
ReversePassAscending(s, i, boom) == Ascending(s, 1, boom)

\* Variant of the second loop that catches a module's exception, stores None
\* and goes on.
RECURSIVE ReversePassSwallows(_, _, _)
ReversePassSwallows(s, i, boom) ==
    IF i < 1 THEN s
    ELSE IF Get(s.p, i - 1) # None
         THEN LET c == Call(s, i - 1, boom)
              IN  IF c.raisedAt # -1
                  THEN ReversePassSwallows([c EXCEPT !.p = Put(@, i, None), !.raisedAt = -1],
                                           i - 1, boom)
                  ELSE ReversePassSwallows(c, i - 1, boom)
         ELSE ReversePassSwallows([s EXCEPT !.p = Put(@, i, None)], i - 1, boom)

\* for i in range(len(module_list), 0, -1): ...
RECURSIVE ReversePass(_, _, _)
ReversePass(s, i, boom) ==
    IF i < 1 \/ s.raisedAt # -1 THEN s
    ELSE IF Feeds(s.p, i)
         THEN ReversePass(Call(s, i - 1, boom), i - 1, boom)
         ELSE ReversePass([s EXCEPT !.p = Put(@, i, None)], i - 1, boom)

\* Variant of the warm-up test that forgets the step counter.
RunsWarmupAlways(steps, isFast) == isFast

\* Variant of the warm-up test that is off by one step.
RunsWarmupLate(steps, isFast) == steps = 1 /\ isFast

\* if self.simulated_steps == 0 and self.fast
RunsWarmup(steps, isFast) == steps = 0 /\ isFast

\* Variant of step() without the else: the second loop also runs after the
\* warm-up.
PassesBoth(ml, ms, p, steps, isFast, input_data, boom) ==
    LET s == Frame(ml, ms, Put(p, 0, input_data))
    IN  IF RunsWarmup(steps, isFast)
        THEN ReversePass(ForwardPass(s, 0, boom), Len(ml), boom)
        ELSE ReversePass(s, Len(ml), boom)

\* The loops of step(): pipeline[0] = input_data, then one of the passes.
Passes(ml, ms, p, steps, isFast, input_data, boom) ==
    LET s == Frame(ml, ms, Put(p, 0, input_data))
    IN  IF RunsWarmup(steps, isFast)
        THEN ForwardPass(s, 0, boom)
        ELSE ReversePass(s, Len(ml), boom)

\* return self.pipeline[-1]
Output(p) == p[Len(p)]

\* Variant of the counter that also counts a call that raised.
CountAlways(steps, raisedAt) == steps + 1

\* self.simulated_steps += 1, which a call that raised never reaches
Count(steps, raisedAt) == IF raisedAt = -1 THEN steps + 1 ELSE steps

\* `boom` is the 0-based index of the Integrator whose forward() raises if
\* this call invokes it (-1: none raises).
step(input_data, boom) ==
    /\ Len(ins) < MaxCalls
    /\ boom = -1 \/ (boom \in 0..(Len(module_list) - 1) /\ module_list[boom + 1] = "Integrator")
    /\ LET s == Passes(module_list, mstate, pipeline, simulated_steps, fast,
                       input_data, boom)
       IN  /\ pipeline' = s.p
           /\ mstate' = s.ms
           /\ invoked' = s.invoked
           /\ noneSeen' = s.noneSeen
           /\ simulated_steps' = Count(simulated_steps, s.raisedAt)
           /\ result' = IF s.raisedAt = -1 THEN Returned(Output(s.p))
                        ELSE Raised(s.raisedAt)
           /\ outs' = Append(outs, IF s.raisedAt = -1 THEN Returned(Output(s.p))
                                   ELSE Raised(s.raisedAt))
    /\ passKind' = IF RunsWarmup(simulated_steps, fast) THEN "forward" ELSE "reverse"
    /\ warmedUp' = (warmedUp \/ RunsWarmup(simulated_steps, fast))
    /\ ins' = Append(ins, input_data)
    /\ lastOp' = "step"
    /\ resets' = <<>>
    /\ cleared' = NotCleared
    /\ UNCHANGED <<module_list, fast, lateAppend, appendBurst>>

\* ---------------------------------------------------------------- reset
\* Variant of the clearing loop that runs over range(len(module_list)) and so
\* misses the last slot.
ClearPipelineShort(p) == [i \in 1..Len(p) |-> IF i < Len(p) THEN None ELSE p[i]]

\* for i in range(len(pipeline)): pipeline[i] = None
ClearPipeline(p) == [i \in 1..Len(p) |-> None]

\* Variant of reset() that keeps the step counter.
ClearStepsKeeps(steps) == steps

\* self.simulated_steps = 0
ClearSteps(steps) == 0

\* Variant of the last loop that walks the modules downwards.
RECURSIVE Descending(_, _, _, _)
Descending(ml, ms, i, trace) ==
    IF i < 0 THEN [ms |-> ms, resets |-> trace]
    ELSE Descending(ml, [ms EXCEPT ![i + 1] = StageReset(ml[i + 1], ms[i + 1])],
                    i - 1, Append(trace, i))
ResetModulesDescending(ml, ms, i, trace) == Descending(ml, ms, Len(ml) - 1, trace)

\* for i in range(len(module_list)): module_list[i].reset()
RECURSIVE ResetModules(_, _, _, _)
ResetModules(ml, ms, i, trace) ==
    IF i >= Len(ml) THEN [ms |-> ms, resets |-> trace]
    ELSE ResetModules(ml, [ms EXCEPT ![i + 1] = StageReset(ml[i + 1], ms[i + 1])],
                      i + 1, Append(trace, i))

reset ==
    /\ simulated_steps' = ClearSteps(simulated_steps)
    /\ pipeline' = ClearPipeline(pipeline)
    /\ LET r == ResetModules(module_list, mstate, 0, <<>>)
       IN  /\ mstate' = r.ms
           /\ resets' = r.resets
    /\ cleared' = [steps |-> simulated_steps,
                   raised |-> \E k \in 1..Len(outs) : outs[k].status # "ok",
                   late |-> lateAppend]
    /\ lastOp' = "reset"
    /\ result' = NoResult
    /\ invoked' = <<>>
    /\ noneSeen' = {}
    /\ passKind' = "none"
    /\ ins' = <<>>
    /\ outs' = <<>>
    /\ lateAppend' = FALSE
    /\ appendBurst' = FALSE
    /\ warmedUp' = FALSE
    /\ UNCHANGED <<module_list, fast>>

\* ---------------------------------------------------------------- system
Next ==
    \/ \E new_module \in Kinds : append(new_module)
    \/ \E input_data \in Inputs, boom \in -1..(MaxStages - 1) :
          step(input_data, boom)
    \/ reset

Spec == Init /\ [][Next]_vars

\* The latency scenario: chains of AddOne modules fed 10, 20 and 30.
NextAddOne ==
    \/ append("AddOne")
    \/ \E input_data \in Inputs \cup {Some(30)} : step(input_data, -1)
    \/ reset

SpecAddOne == Init /\ [][NextAddOne]_vars

\* A caller that may also pass None as input_data.
NextAbsent ==
    \/ \E new_module \in Kinds : append(new_module)
    \/ \E input_data \in Inputs \cup {None}, boom \in -1..(MaxStages - 1) :
          step(input_data, boom)
    \/ reset

SpecAbsent == Init /\ [][NextAbsent]_vars

\* ---------------------------------------------------------------- properties
NumStages == Len(module_list)
AllOfKind(kind) == \A i \in 1..NumStages : module_list[i] = kind
NoAbsentInput == \A k \in 1..Len(ins) : ins[k] # None
LastInput == ins[Len(ins)]

\* The chain applied to x by modules in their initial state:
\* module[n-1](...module[0](x)...).
RECURSIVE Compose(_, _, _)
Compose(ml, k, x) ==
    IF k = 0 THEN x
    ELSE Transform(ml[k], InitialState(ml[k]), Compose(ml, k - 1, x), FALSE).out

\* C1: with fast off and n >= 1 Identity modules appended before the first
\* step, every step before the n-th returns None and the n-th step returns
\* the first input.
C1_AbsentUntilLatency ==
    (~fast /\ NumStages >= 1 /\ AllOfKind("Identity") /\ ~lateAppend /\ NoAbsentInput)
        => \A k \in 1..Len(outs) :
              /\ k < NumStages => outs[k] = Returned(None)
              /\ k = NumStages => outs[k] = Returned(ins[1])

C1_Witness ==
    /\ ~fast /\ NumStages = 3 /\ AllOfKind("Identity") /\ ~lateAppend
    /\ Len(outs) = 3
    /\ ins[1] # ins[3]
    /\ outs[2] = Returned(None)
    /\ outs[3] = Returned(ins[1])

\* C2 as stated: with fast off and two AddOne modules, step(10), step(20),
\* step(30) return None, None, 12.
C2_AsStated ==
    (~fast /\ module_list = <<"AddOne", "AddOne">> /\ ~lateAppend
           /\ ins = <<Some(10), Some(20), Some(30)>>)
        => outs = <<Returned(None), Returned(None), Returned(Some(12))>>

\* C2 amended: with fast off and two AddOne modules, step(10), step(20),
\* step(30) return None, 12, 22: the first input leaves the chain on the
\* second call.
C2_LatencyOfTwo ==
    (~fast /\ module_list = <<"AddOne", "AddOne">> /\ ~lateAppend
           /\ ins = <<Some(10), Some(20), Some(30)>>)
        => outs = <<Returned(None), Returned(Some(12)), Returned(Some(22))>>

C2_Witness ==
    /\ ~fast /\ module_list = <<"AddOne", "AddOne">> /\ ~lateAppend
    /\ ins = <<Some(10), Some(20), Some(30)>>
    /\ Len(outs) = 3
    /\ outs[2] = Returned(Some(12))

\* C3: with fast on, the first step(x) since the pipeline was cleared, when
\* it returns, returns the whole chain applied to x and leaves no slot None.
C3_WarmupImmediate ==
    (fast /\ lastOp = "step" /\ Len(ins) = 1 /\ ins[1] # None /\ result.status = "ok")
        => /\ result.value = Compose(module_list, NumStages, ins[1])
           /\ result.value # None
           /\ \A i \in 0..NumStages : Get(pipeline, i) # None

C3_Witness ==
    /\ fast /\ lastOp = "step" /\ Len(ins) = 1 /\ result.status = "ok"
    /\ NumStages = 3 /\ AllOfKind("Identity")
    /\ result.value = ins[1]
    /\ pipeline = <<ins[1], ins[1], ins[1], ins[1]>>

\* C4: when no input is None, no forward() is ever called on None, also
\* after a call that a raise cut short, with fast on or off.
C4_NoStageSeesNone ==
    NoAbsentInput => noneSeen = {}

\* A step after a raise, walking a pipeline that still holds a None slot.
C4_Witness ==
    /\ lastOp = "step" /\ NoAbsentInput
    /\ \E k \in 1..(Len(outs) - 1) : outs[k].status = "StageInvocationFailure"
    /\ result.status = "ok"
    /\ invoked # <<>>
    /\ \E i \in 1..NumStages : Get(pipeline, i) = None
    /\ noneSeen = {}

\* C5 as stated: step(None) ends in an InvalidInput error and calls no
\* forward().
C5_RejectsAbsentInput ==
    (lastOp = "step" /\ LastInput = None)
        => /\ result.status = "InvalidInput"
           /\ invoked = <<>>

\* C6: the pipeline always has one slot more than there are modules, and
\* append() adds exactly one None slot at the tail.
C6_BufferLength ==
    /\ [](Len(pipeline) = Len(module_list) + 1)
    /\ [][lastOp' = "append" =>
            /\ Len(module_list') = Len(module_list) + 1
            /\ pipeline' = Append(pipeline, None)]_vars

\* An append after a step that a raise cut short.
C6_Witness ==
    /\ lastOp = "append" /\ lateAppend
    /\ \E k \in 1..Len(outs) : outs[k].status = "StageInvocationFailure"
    /\ NumStages = 3 /\ Len(pipeline) = 4
    /\ Get(pipeline, 3) = None
    /\ Get(pipeline, 1) # None

\* C7: one step() calls each module's forward() at most once.
C7_AtMostOncePerStep ==
    \A a, b \in 1..Len(invoked) : a # b => invoked[a] # invoked[b]

C7_Witness ==
    /\ lastOp = "step" /\ passKind = "reverse"
    /\ invoked = <<2, 1, 0>>

\* C8: reset() sets simulated_steps to 0 and every slot to None and leaves
\* module_list and the length of the pipeline as they were.
C8_ResetEffect ==
    [][lastOp' = "reset" =>
        /\ simulated_steps' = 0
        /\ \A i \in 1..Len(pipeline') : pipeline'[i] = None
        /\ module_list' = module_list
        /\ Len(pipeline') = Len(pipeline)]_vars

\* A reset of a simulator that a raise left half updated.
C8_Witness ==
    /\ lastOp = "reset"
    /\ cleared.steps >= 1 /\ cleared.raised
    /\ NumStages = 3
    /\ pipeline = <<None, None, None, None>>
    /\ simulated_steps = 0

\* The simulator right after __init__ and one append per module of ml.
RECURSIVE Constructed(_, _)
Constructed(ml, k) ==
    IF k = 0 THEN [p |-> <<None>>, ms |-> <<>>, steps |-> 0]
    ELSE LET c == Constructed(ml, k - 1)
         IN  [p |-> Append(c.p, None), ms |-> Append(c.ms, InitialState(ml[k])),
              steps |-> c.steps]

\* C9: reset() leaves the simulator in the state of a new one with the same
\* flag and the same modules appended, so it answers every later step() as
\* the new one would; with fast on, the step right after it runs the warm-up.
C9_ResetIsFresh ==
    [][/\ lastOp' = "reset" =>
            LET new == Constructed(module_list, Len(module_list))
            IN  /\ pipeline' = new.p
                /\ mstate' = new.ms
                /\ simulated_steps' = new.steps
                /\ module_list' = module_list
                /\ fast' = fast
       /\ (lastOp = "reset" /\ lastOp' = "step" /\ fast) => passKind' = "forward"]_vars

\* A reset after a warm-up and further steps that moved an Integrator.
C9_Witness ==
    /\ lastOp = "reset" /\ fast
    /\ cleared.steps >= 2
    /\ \E i \in 1..NumStages : module_list[i] = "Integrator"
    /\ \A i \in 1..NumStages : mstate[i] = 0

\* C10: when module j raises in the second loop, no module below j is
\* called, slot 0 holds the new input, the slots above j + 1 hold what this
\* pass computed from the old slots, and slots 1..j+1 are as before the call.
C10_PartialUpdate ==
    [][(lastOp' = "step" /\ passKind' = "reverse"
            /\ result'.status = "StageInvocationFailure") =>
        LET j == result'.at
        IN  /\ \A k \in 1..Len(invoked') : invoked'[k] >= j
            /\ Get(pipeline', 0) = ins'[Len(ins')]
            /\ \A i \in (j + 2)..NumStages :
                  Get(pipeline', i) =
                      IF Get(pipeline, i - 1) # None
                      THEN Transform(module_list[i], mstate[i], Get(pipeline, i - 1), FALSE).out
                      ELSE None
            /\ \A i \in 1..(j + 1) : Get(pipeline', i) = Get(pipeline, i)]_vars

\* The middle module of three raises after the last one has run.
C10_Witness ==
    /\ lastOp = "step" /\ passKind = "reverse"
    /\ result.status = "StageInvocationFailure" /\ result.at = 1
    /\ NumStages = 3
    /\ invoked = <<2, 1>>
    /\ Get(pipeline, 1) # None /\ Get(pipeline, 2) # None /\ Get(pipeline, 3) # None

\* The last call walked the modules upwards from 0 / downwards.
WalkedUp == \A k \in 1..Len(invoked) : invoked[k] = k - 1
WalkedDown == \A k \in 1..(Len(invoked) - 1) : invoked[k] > invoked[k + 1]
NoneCompletedBefore == \A k \in 1..(Len(outs) - 1) : outs[k].status # "ok"

\* C11 as stated: with fast on, only the first step() since __init__ or
\* reset() runs the warm-up loop, also when that first call raised.
C11_AsStated ==
    (lastOp = "step" /\ fast) => (passKind = "forward" <=> Len(ins) = 1)

\* C11 amended: a step() runs the warm-up loop exactly when fast is on and no
\* step() has returned since __init__ or the last reset(), so the call after
\* a first call that raised runs it again; every other call runs the reverse
\* loop, also after a late append.
C11_WarmupWhileCold ==
    lastOp = "step" =>
        /\ passKind = "forward" <=> (fast /\ NoneCompletedBefore)
        /\ passKind = "forward" => WalkedUp
        /\ passKind = "reverse" => WalkedDown

\* The second call runs the warm-up again after the first one raised.
C11_Witness ==
    /\ lastOp = "step" /\ fast
    /\ Len(outs) = 2
    /\ outs[1].status = "StageInvocationFailure"
    /\ passKind = "forward"
    /\ invoked = <<0, 1, 2>>

\* C12 as stated: a slot i that is not None implies that the warm-up ran
\* since the pipeline was cleared or that simulated_steps >= i.
C12_AsStated ==
    \A i \in 0..NumStages :
        Get(pipeline, i) # None => (warmedUp \/ simulated_steps >= i)

\* C12 amended: a slot i that is not None implies that the warm-up ran since
\* the pipeline was cleared or that at least i step() calls, returned or
\* raised, were made since then.
C12_SlotNeedsCalls ==
    \A i \in 0..NumStages :
        Get(pipeline, i) # None => (warmedUp \/ Len(ins) >= i)

\* Slot 2 is filled by a second call that raised: one step counted, two made.
C12_Witness ==
    /\ ~fast /\ ~warmedUp
    /\ NumStages >= 2
    /\ Get(pipeline, 2) # None
    /\ simulated_steps = 1
    /\ Len(ins) = 2

\* A simulator built by __init__ and one append per module of ml, then fed
\* the inputs xs by step() calls in which no module raises.
RECURSIVE RunFrom(_, _, _, _)
RunFrom(sim, ml, isFast, xs) ==
    IF xs = <<>> THEN sim
    ELSE LET s == Passes(ml, sim.ms, sim.p, sim.steps, isFast, Head(xs), -1)
         IN  RunFrom([p |-> s.p, ms |-> s.ms, steps |-> Count(sim.steps, s.raisedAt)],
                     ml, isFast, Tail(xs))
Run(ml, isFast, xs) == RunFrom(Constructed(ml, Len(ml)), ml, isFast, xs)

Stateless == \A i \in 1..NumStages : module_list[i] \in {"Identity", "AddOne"}

\* C13 as stated: the pipeline and the output after the first step(x) of a
\* fast simulator equal those after n step(x) calls of a simulator with fast
\* off and the same n >= 1 modules, stateless or not.
C13_WarmupEqualsNSteps ==
    (fast /\ lastOp = "step" /\ Len(ins) = 1 /\ result.status = "ok" /\ NumStages >= 1)
        => LET slow == Run(module_list, FALSE, [k \in 1..NumStages |-> ins[1]])
           IN  /\ pipeline = slow.p
               /\ result.value = Output(slow.p)

\* C14: append() adds the module and one None slot at the tails, keeps every
\* other slot, simulated_steps, fast and the modules' states, and calls no
\* forward() and no reset(); a None slot stays None until a later step().
C14_AppendFrame ==
    [][/\ lastOp' = "append" =>
            /\ Len(module_list') = Len(module_list) + 1
            /\ \A i \in 1..Len(module_list) : module_list'[i] = module_list[i]
            /\ Len(pipeline') = Len(pipeline) + 1
            /\ \A i \in 0..NumStages : Get(pipeline', i) = Get(pipeline, i)
            /\ Get(pipeline', NumStages + 1) = None
            /\ simulated_steps' = simulated_steps
            /\ fast' = fast
            /\ \A i \in 1..Len(mstate) : mstate'[i] = mstate[i]
            /\ invoked' = <<>> /\ resets' = <<>>
       /\ lastOp' # "step" =>
            \A i \in 0..NumStages : Get(pipeline, i) = None => Get(pipeline', i) = None]_vars

\* A module appended after two steps, behind slots that hold data.
C14_Witness ==
    /\ lastOp = "append" /\ lateAppend
    /\ simulated_steps = 2
    /\ NumStages = 2
    /\ Get(pipeline, 0) # None /\ Get(pipeline, 1) # None
    /\ Get(pipeline, 2) = None

\* C15: simulated_steps is the number of step() calls that returned since
\* __init__ or the last reset(): a call that raised, an append() and the
\* warm-up's n module calls do not change that.
C15_CountsCompletedSteps ==
    simulated_steps = Cardinality({k \in 1..Len(outs) : outs[k].status = "ok"})

\* Two calls returned, one of them the warm-up, and one raised.
C15_Witness ==
    /\ fast /\ lateAppend
    /\ Len(outs) = 3
    /\ outs[1].status = "ok"
    /\ outs[2].status = "StageInvocationFailure"
    /\ simulated_steps = 2

\* C16: a reverse pass that returns writes what a double-buffered update
\* would: slot 0 the input, slot 1 module 0 of the input, slot i >= 2 module
\* i - 1 of the old slot i - 1 (None when that was None); it returns slot n.
C16_DoubleBuffered ==
    [][(lastOp' = "step" /\ passKind' = "reverse" /\ result'.status = "ok") =>
        LET x == ins'[Len(ins')]
        IN  /\ Get(pipeline', 0) = x
            /\ NumStages >= 1 =>
                  Get(pipeline', 1) = Transform(module_list[1], mstate[1], x, FALSE).out
            /\ \A i \in 2..NumStages :
                  Get(pipeline', i) =
                      IF Get(pipeline, i - 1) # None
                      THEN Transform(module_list[i], mstate[i], Get(pipeline, i - 1), FALSE).out
                      ELSE None
            /\ result'.value = Get(pipeline', NumStages)]_vars

\* Three Identity modules after inputs 10, 20, 10: each slot is one step older.
C16_Witness ==
    /\ lastOp = "step" /\ passKind = "reverse" /\ result.status = "ok"
    /\ ~fast /\ ~lateAppend
    /\ AllOfKind("Identity")
    /\ ins = <<Some(10), Some(20), Some(10)>>
    /\ pipeline = <<Some(10), Some(10), Some(20), Some(10)>>

\* For comparison: C13 restricted to stateless modules.
StatelessWarmupEqualsNSteps == Stateless => C13_WarmupEqualsNSteps

\* C17: reset() calls reset() once on every module, module 0 first and
\* module n - 1 last, whether or not its forward() ever ran, and calls no
\* forward().
C17_ResetsInChainOrder ==
    [][lastOp' = "reset" =>
        /\ resets' = [i \in 1..NumStages |-> i - 1]
        /\ \A i \in 1..NumStages : mstate'[i] = InitialState(module_list[i])
        /\ invoked' = <<>>]_vars

\* A reset of three modules, one of them appended after stepping began.
C17_Witness ==
    /\ lastOp = "reset"
    /\ resets = <<0, 1, 2>>
    /\ cleared.late /\ cleared.steps >= 1

AllReturned == \A k \in 1..Len(outs) : outs[k].status = "ok"

\* C18 as stated: with fast on, inputs that are not None and no raise, every
\* step() returns a value that is not None, whatever was appended in between.
C18_AsStated ==
    (fast /\ lastOp = "step" /\ NoAbsentInput /\ AllReturned)
        => result.value # None

\* C18 amended: with fast on, inputs that are not None and no raise, every
\* step() returns a value that is not None as long as, once stepping has
\* begun, no two modules are appended without a step() between them.
C18_OneAppendAtATime ==
    (fast /\ lastOp = "step" /\ NoAbsentInput /\ AllReturned /\ ~appendBurst)
        => result.value # None

\* Three steps with one module appended before each of the last two.
C18_Witness ==
    /\ fast /\ lastOp = "step" /\ AllReturned
    /\ lateAppend /\ ~appendBurst
    /\ NumStages = 3 /\ Len(outs) = 3
    /\ outs[2].value # None
    /\ result.value # None

\* C19: when no input is None, the slots that are not None form a prefix of
\* the pipeline, also after a call that raised, with fast on or off.
C19_NoBubbleInside ==
    NoAbsentInput =>
        \A i \in 0..NumStages : \A j \in (i + 1)..NumStages :
            Get(pipeline, i) = None => Get(pipeline, j) = None

\* A call that raised half-way left data below a None tail.
C19_Witness ==
    /\ lastOp = "step" /\ result.status = "StageInvocationFailure"
    /\ NumStages = 3
    /\ Get(pipeline, 1) # None
    /\ Get(pipeline, 2) # None
    /\ Get(pipeline, 3) = None

\* C20: for n >= 1 stateless modules appended before the first step, from
\* call n on a fast simulator and one with fast off return the same value,
\* the chain applied to input k - n + 1, and hold the same pipeline.
C20_SameAfterLatency ==
    (Stateless /\ NumStages >= 1 /\ ~lateAppend /\ NoAbsentInput /\ Len(ins) >= NumStages)
        => /\ \A k \in NumStages..Len(outs) :
                 outs[k] = Returned(Compose(module_list, NumStages, ins[k - NumStages + 1]))
           /\ pipeline = Run(module_list, ~fast, ins).p

\* A fast simulator, one call past the latency of its two modules.
C20_Witness ==
    /\ fast /\ ~lateAppend
    /\ module_list = <<"AddOne", "Identity">>
    /\ ins = <<Some(10), Some(20), Some(10)>>
    /\ result = Returned(Some(21))
    /\ outs[1] = Returned(Some(11))

====
